---- MODULE Spec2Model ----
(***************************************************************************)
(* CalendarContainer of react-native-big-calendar: the targetDate / mode / *)
(* dateRange state machine, the onChangeDate effect, the event partition   *)
(* and the pan animations started by swipes and header pan buttons.        *)
(*                                                                         *)
(* Dates are day numbers (integers) of a calendar without leap years whose *)
(* day 0 is a Sunday, 1 January.  A React state update (setTargetDate) is  *)
(* stored at once in targetDate and becomes visible to the handlers only   *)
(* at the next render, which copies it to rendered.  A change of a prop    *)
(* re-renders in the same step.  Animated values are driven by frames: one *)
(* Frame step runs the pending requestAnimationFrame callbacks in order.   *)
(***************************************************************************)
EXTENDS Integers, Sequences, FiniteSets, TLC

\* ------------------------------------------------------------------ bounds

\* inputs (swipes, button presses, prop changes) in one behaviour
MaxSteps == 3
\* frames a timing animation of fadeInDuration > 0 lasts
FadeFrames == 2
\* opacity is counted in units of 1/Resolution: Resolution is opacity 1
Resolution == 2

\* ------------------------------------------------- dayjs (days, no leap years)

MonthLens == <<31, 28, 31, 30, 31, 30, 31, 31, 30, 31, 30, 31>>

RECURSIVE SumTo(_, _)
SumTo(s, n) == IF n = 0 THEN 0 ELSE s[n] + SumTo(s, n - 1)

YearLen == SumTo(MonthLens, Len(MonthLens))

\* 0-based day of the year of day number d
DayOfYear(d) == d % YearLen

\* 1-based month of day number d
MonthOf(d) ==
  CHOOSE m \in DOMAIN MonthLens :
    /\ SumTo(MonthLens, m - 1) <= DayOfYear(d)
    /\ DayOfYear(d) < SumTo(MonthLens, m)

\* dayjs#date(): 1-based day of the month
DateOf(d) == DayOfYear(d) - SumTo(MonthLens, MonthOf(d) - 1) + 1

\* dayjs#daysInMonth()
DaysInMonth(d) == MonthLens[MonthOf(d)]

\* dayjs#day(): 0 is Sunday
DayOfWeek(d) == d % 7

\* ------------------------------------------------------------------ utils

NoDate == -1000

Modes == {"month", "week", "3days", "day", "custom"}

\* a value of the mode prop outside the Mode type
UnsupportedMode == "year"

modeToNum(m, current) ==
  CASE m = "month" -> DaysInMonth(current) - DateOf(current) + 1
    [] m = "day" -> 1
    [] m = "3days" -> 3
    [] m \in {"week", "custom"} -> 7

getDatesInMonth(d) ==
  [i \in 1..(DaysInMonth(d) - 1) |-> d - DateOf(d) + i]

getDatesInWeek(d, ws) ==
  LET dow == DayOfWeek(d)
  IN [i \in 1..7 |-> d + (i - 1) - (IF dow < ws THEN 7 + dow ELSE dow) + ws]

getDatesInNextThreeDays(d) == [i \in 1..3 |-> d + (i - 1)]

getDatesInNextOneDay(d) == <<d>>

RECURSIVE CountTo(_, _)
CountTo(i, we) == IF i = we THEN 1 ELSE 1 + CountTo((i + 1) % 7, we)

weekDaysCount(ws, we) ==
  IF we < ws THEN CountTo(ws, we)
  ELSE IF we > ws THEN we - ws + 1
  ELSE 1

getDatesInNextCustomDays(d, ws, we) ==
  [i \in 1..weekDaysCount(ws, we) |-> d + (i - 1) - DayOfWeek(d) + ws]

\* an event is [title, start, end]; start and end are [day, minute of the day]
isAllDayEvent(start, end) == start.minute = 0 /\ end.minute = 0

\* ------------------------------------------------------------------ state

VARIABLES
  date,              \* prop date (a day number, or NoDate for undefined)
  mode,              \* prop mode
  locale,            \* prop locale
  weekStartsOn,      \* prop weekStartsOn
  weekEndsOn,        \* prop weekEndsOn
  events,            \* prop events
  swipeEnabled,      \* prop swipeEnabled
  animatePan,        \* prop animatePan
  fadeInDuration,    \* prop fadeInDuration, in frames
  onChangeDate,      \* whether the prop onChangeDate is supplied
  showHeaderPan,     \* prop showHeaderPan
  isRTL,             \* theme.isRTL
  targetDate,        \* React state targetDate: the value last set
  rendered,          \* targetDate of the last render, captured by its handlers
  dateRange,         \* the memoised dateRange of the last render
  pending,           \* a state update waits for its render
  crashed,           \* the unsupported mode whose render threw, or "" for none
  calls,             \* invocations of onChangeDate so far
  lastCall,          \* argument of the last invocation of onChangeDate
  presentLeftValue,  \* Animated.Value presentLeftValue
  presentFadeAnim,   \* Animated.Value presentFadeAnim, in units of 1/Resolution
  animations,        \* the timing animations that are running, oldest first
  started,           \* the callback steps started by the last input or frame
  input,             \* the last input: its source, direction, the animation it
                     \* started, the targetDate its handler had captured, and
                     \* whether an animation was running when it arrived
  nav,               \* the targetDate at mount and the advancing and retreating
                     \* inputs since; clean: no prop has changed meanwhile;
                     \* fresh: no input was handled before the render of the
                     \* input before it
  steps              \* inputs so far

props == <<date, mode, locale, weekStartsOn, weekEndsOn, events, swipeEnabled,
           animatePan, fadeInDuration, onChangeDate, showHeaderPan, isRTL>>

react == <<targetDate, rendered, dateRange, pending, crashed, calls, lastCall>>

animated == <<presentLeftValue, presentFadeAnim, animations, started>>

vars == <<props, react, animated, input, nav, steps>>

\* ---------------------------------------------------- Animated.timing, frames

\* pixels: leftValue.current.width, the laid out width of the body
Width == 2

\* frames a timing animation of duration 0.01 ms lasts
JumpFrames == 1

NoCallback == [k |-> "none", dir |-> "none"]

Animation(id, kind, v, from, to, dur, cb) ==
  [id |-> id, kind |-> kind, v |-> v, from |-> from, to |-> to, dur |-> dur,
   el |-> 0, cb |-> cb, reg |-> TRUE]

ValueOf(st, v) == IF v = "L" THEN st.L ELSE st.F

SetValue(st, v, x) == IF v = "L" THEN [st EXCEPT !.L = x] ELSE [st EXCEPT !.F = x]

Remove(run, id) == SelectSeq(run, LAMBDA a : a.id # id)

\* value._animation = null: no animation on v is the registered one any more
Unregister(run, v) ==
  [i \in DOMAIN run |-> IF run[i].v = v THEN [run[i] EXCEPT !.reg = FALSE] ELSE run[i]]

Registered(run, v) == {i \in DOMAIN run : run[i].v = v /\ run[i].reg}

\* the value a running timing animation writes in frame el of dur
Interpolate(from, to, el, dur) ==
  IF el >= dur THEN to
  ELSE IF to >= from THEN from + ((to - from) * el) \div dur
  ELSE from - ((from - to) * el) \div dur

Note(st, what, finished) ==
  [st EXCEPT !.log = Append(st.log, [start |-> what, fade |-> st.F, finished |-> finished])]

\* f(e), with e evaluated once
Bind(e, f(_)) == CHOOSE r \in {f(x) : x \in {e}} : TRUE

RECURSIVE AnimatedTimingStart(_, _, _, _, _, _), RunCallback(_, _, _)

\* Animated.timing(v, {toValue: to, duration: dur}).start(cb), i.e.
\* AnimatedValue#animate: stop the registered animation (its end callback runs
\* at once, with finished false), register the new one and start it; a
\* duration of 0 ends in the same call.
AnimatedTimingStart(st, kind, v, to, dur, cb) ==
  Bind(
    IF Registered(st.run, v) = {} THEN st
    ELSE Bind(st.run[CHOOSE i \in Registered(st.run, v) : TRUE], LAMBDA a :
           RunCallback([st EXCEPT !.run = Remove(st.run, a.id)], a.cb, FALSE)),
    LAMBDA s1 :
      Bind([s1 EXCEPT !.run = Unregister(s1.run, v)], LAMBDA s2 :
        IF dur = 0
        THEN RunCallback(SetValue(s2, v, to), cb, TRUE)
        ELSE [s2 EXCEPT !.run = Append(s2.run,
                          Animation(s2.nid, kind, v, ValueOf(s2, v), to, dur, cb)),
                        !.nid = s2.nid + 1]))

\* the completion callbacks nested in movePrevBody and moveNextBody; none of
\* them looks at the result ({finished}) it is called with
RunCallback(st, cb, finished) ==
  CASE cb.k = "none" -> st
    [] cb.k = "hidden" ->
         Bind(Note(st, "toStart", finished), LAMBDA s :
           AnimatedTimingStart(s, "toStart", "L", 0, JumpFrames,
                               [k |-> "atStart", dir |-> cb.dir]))
    [] cb.k = "atStart" ->
         Bind(Note(st, "toEdge", finished), LAMBDA s :
           AnimatedTimingStart(s, "toEdge", "L",
                               IF cb.dir = "next" THEN Width ELSE -1 * Width,
                               JumpFrames, [k |-> "atEdge", dir |-> cb.dir]))
    [] cb.k = "atEdge" ->
         Bind(Note(st, "show", finished), LAMBDA s :
           Bind(AnimatedTimingStart(s, "slideIn", "L", 0, fadeInDuration, NoCallback),
                LAMBDA t :
                  AnimatedTimingStart(t, "fadeIn", "F", Resolution, fadeInDuration,
                                      NoCallback)))

movePrevBody(st) ==
  Bind(AnimatedTimingStart(st, "slideOut", "L", Width, fadeInDuration, NoCallback),
       LAMBDA s :
         AnimatedTimingStart(s, "fadeOut", "F", 0, fadeInDuration,
                             [k |-> "hidden", dir |-> "prev"]))

\* moveNextBody whose fade-out has no completion callback
moveNextBody_NoCallback(st) ==
  Bind(AnimatedTimingStart(st, "slideOut", "L", -1 * Width, fadeInDuration, NoCallback),
       LAMBDA s : AnimatedTimingStart(s, "fadeOut", "F", 0, fadeInDuration, NoCallback))

moveNextBody(st) ==
  Bind(AnimatedTimingStart(st, "slideOut", "L", -1 * Width, fadeInDuration, NoCallback),
       LAMBDA s :
         AnimatedTimingStart(s, "fadeOut", "F", 0, fadeInDuration,
                             [k |-> "hidden", dir |-> "next"]))

\* the requestAnimationFrame callback of animation a (TimingAnimation#onUpdate)
OnUpdate(st, a) ==
  IF a.el + 1 >= a.dur
  THEN Bind([SetValue(st, a.v, a.to) EXCEPT
               !.run = Unregister(Remove(st.run, a.id), a.v)],
            LAMBDA s : RunCallback(s, a.cb, TRUE))
  ELSE [SetValue(st, a.v, Interpolate(a.from, a.to, a.el + 1, a.dur)) EXCEPT
          !.run = [i \in DOMAIN st.run |->
                     IF st.run[i].id = a.id THEN [a EXCEPT !.el = a.el + 1]
                     ELSE st.run[i]]]

\* one frame: the requestAnimationFrame callbacks registered before the frame
\* run in order; one that an earlier callback of the frame stopped is skipped
RECURSIVE RunFrame(_, _)
RunFrame(st, ids) ==
  IF ids = <<>> THEN st
  ELSE Bind(
         IF \E i \in DOMAIN st.run : st.run[i].id = Head(ids)
         THEN Bind(st.run[CHOOSE i \in DOMAIN st.run : st.run[i].id = Head(ids)],
                   LAMBDA a : OnUpdate(st, a))
         ELSE st,
         LAMBDA s : RunFrame(s, Tail(ids)))

\* the animated values as one record, for the operators above
Engine ==
  [L |-> presentLeftValue, F |-> presentFadeAnim, run |-> animations,
   nid |-> Len(animations) + 1, log |-> <<>>]

\* animation ids are positions in the list
Renumber(run) == [i \in DOMAIN run |-> [run[i] EXCEPT !.id = i]]

\* ------------------------------------------------------------ the container

\* the days, locales, week settings and event lists the props are drawn from
DateChoices == {59}

NowChoices == {45}

Locales == {"en", "ja"}

WeekChoices == {<<0, 6>>, <<1, 5>>, <<3, 1>>}

Event(title, startMinute, endMinute) ==
  [title |-> title, start |-> [day |-> 59, minute |-> startMinute],
   end |-> [day |-> 60, minute |-> endMinute]]

EventChoices ==
  { <<>>,
    <<Event("a", 0, 0), Event("b", 540, 600)>>,
    <<Event("c", 0, 30), Event("d", 0, 0), Event("e", 60, 0)>> }

\* the switch with the helpers of '3days' and 'day' exchanged
DateRangeOf_Swapped(m, d, ws, we) ==
  CASE m = "month" -> getDatesInMonth(d)
    [] m = "week" -> getDatesInWeek(d, ws)
    [] m = "3days" -> getDatesInNextOneDay(d)
    [] m = "day" -> getDatesInNextThreeDays(d)
    [] m = "custom" -> getDatesInNextCustomDays(d, ws, we)

DateRangeOf(m, d, ws, we) ==
  CASE m = "month" -> getDatesInMonth(d)
    [] m = "week" -> getDatesInWeek(d, ws)
    [] m = "3days" -> getDatesInNextThreeDays(d)
    [] m = "day" -> getDatesInNextOneDay(d)
    [] m = "custom" -> getDatesInNextCustomDays(d, ws, we)

\* the argument of onChangeDate: [dateRange[0], dateRange.slice(-1)[0]]
Ends(range) == <<range[1], range[Len(range)]>>

allDayEvents == SelectSeq(events, LAMBDA e : isAllDayEvent(e.start, e.end))

\* the timed events without the filter
daytimeEvents_Unfiltered == events

daytimeEvents == SelectSeq(events, LAMBDA e : ~isAllDayEvent(e.start, e.end))

\* the events handed to the header and to the body by the last render
headerEvents == IF mode = "month" THEN <<>> ELSE allDayEvents

bodyEvents == IF mode = "month" THEN daytimeEvents \o allDayEvents ELSE daytimeEvents

Mounted == crashed = ""

\* the state after the first render and its effects: targetDate is dayjs(date),
\* today when date is undefined; the effect on [date] has set it again when
\* date is defined; the effect on [dateRange, onChangeDate] has run
Mount ==
  /\ targetDate \in (IF date = NoDate THEN NowChoices ELSE {date})
  /\ rendered = targetDate
  /\ crashed = (IF mode \in Modes THEN "" ELSE mode)
  /\ dateRange = (IF mode \in Modes
                  THEN DateRangeOf(mode, targetDate, weekStartsOn, weekEndsOn)
                  ELSE <<>>)
  /\ pending = (mode \in Modes /\ date # NoDate)
  /\ calls = (IF mode \in Modes /\ onChangeDate THEN 1 ELSE 0)
  /\ lastCall = (IF mode \in Modes /\ onChangeDate THEN Ends(dateRange) ELSE <<>>)
  /\ presentLeftValue = 0
  /\ presentFadeAnim = Resolution
  /\ animations = <<>>
  /\ started = <<>>
  /\ input = [src |-> "none", dir |-> "none", anim |-> "none", from |-> targetDate,
              busy |-> FALSE]
  /\ nav = [origin |-> targetDate, advances |-> 0, retreats |-> 0, clean |-> TRUE,
            fresh |-> TRUE]
  /\ steps = 0

\* navigation: swipes, pan buttons and changes of the date prop, in every
\* mode, in both layout directions, with swipeEnabled on and off
Init ==
  /\ date \in DateChoices \cup {NoDate}
  /\ mode \in Modes
  /\ locale = "en"
  /\ weekStartsOn = 0
  /\ weekEndsOn = 6
  /\ events = <<>>
  /\ swipeEnabled \in BOOLEAN
  /\ animatePan = FALSE
  /\ fadeInDuration = 0
  /\ onChangeDate = TRUE
  /\ showHeaderPan \in BOOLEAN
  /\ isRTL \in BOOLEAN
  /\ Mount

\* a render with mode m and week settings ws, we, then its effect on
\* onChangeDate; recompute: a dependency of the dateRange memo other than
\* targetDate changed
Commit(m, ws, we, recompute) ==
  IF m \notin Modes
  THEN /\ crashed' = m
       /\ dateRange' = <<>>
       /\ UNCHANGED <<rendered, calls, lastCall>>
  ELSE /\ crashed' = crashed
       /\ rendered' = targetDate
       /\ IF recompute \/ pending
          THEN /\ dateRange' = DateRangeOf(m, targetDate, ws, we)
               /\ IF onChangeDate
                  THEN calls' = calls + 1 /\ lastCall' = Ends(dateRange')
                  ELSE UNCHANGED <<calls, lastCall>>
          ELSE UNCHANGED <<dateRange, calls, lastCall>>

\* the record of an input that is the change of a prop
PropInput(name) ==
  [src |-> name, dir |-> "none", anim |-> "none", from |-> rendered,
   busy |-> animations # <<>>]

\* the re-render a state update asked for
Render ==
  /\ Mounted /\ pending
  /\ Commit(mode, weekStartsOn, weekEndsOn, FALSE)
  /\ pending' = FALSE
  /\ UNCHANGED <<props, targetDate, animated, input, nav, steps>>

\* the direction in which the body moves forward in time
Forward(direction) ==
  (direction = "LEFT" /\ ~isRTL) \/ (direction = "RIGHT" /\ isRTL)

\* the callback without the layout direction: LEFT always advances
onSwipeHorizontalCallback_IgnoresRTL(direction) ==
  IF ~swipeEnabled
  THEN UNCHANGED <<targetDate, pending>>
  ELSE /\ pending' = TRUE
       /\ IF direction = "LEFT"
          THEN targetDate' = rendered + modeToNum(mode, rendered)
          ELSE targetDate' = rendered + modeToNum(mode, rendered) * (-1)

\* the callback without the early return on swipeEnabled
onSwipeHorizontalCallback_NoGuard(direction) ==
  /\ pending' = TRUE
  /\ IF Forward(direction)
     THEN targetDate' = rendered + modeToNum(mode, rendered)
     ELSE targetDate' = rendered + modeToNum(mode, rendered) * (-1)

onSwipeHorizontalCallback(direction) ==
  IF ~swipeEnabled
  THEN UNCHANGED <<targetDate, pending>>
  ELSE /\ pending' = TRUE
       /\ IF Forward(direction)
          THEN targetDate' = rendered + modeToNum(mode, rendered)
          ELSE targetDate' = rendered + modeToNum(mode, rendered) * (-1)

\* one more input in the direction of the argument; fresh: every input so far
\* was handled by the handler of a render that had seen the current targetDate
Count(direction) ==
  nav' = IF Forward(direction)
         THEN [nav EXCEPT !.advances = @ + 1, !.fresh = @ /\ rendered = targetDate]
         ELSE [nav EXCEPT !.retreats = @ + 1, !.fresh = @ /\ rendered = targetDate]

\* the animated values after one of the two pan animations was started
Animate(st) ==
  /\ presentLeftValue' = st.L
  /\ presentFadeAnim' = st.F
  /\ animations' = Renumber(st.run)
  /\ started' = st.log

\* the record of a navigation input that started animation anim
Input(src, direction, anim) ==
  [src |-> src, dir |-> direction, anim |-> anim, from |-> rendered,
   busy |-> animations # <<>>]

onSwipeHorizontal(direction) ==
  /\ IF animatePan
     THEN IF Forward(direction)
          THEN /\ \E st \in {moveNextBody(Engine)} : Animate(st)
               /\ input' = Input("swipe", direction, "moveNextBody")
          ELSE /\ \E st \in {movePrevBody(Engine)} : Animate(st)
               /\ input' = Input("swipe", direction, "movePrevBody")
     ELSE /\ UNCHANGED animated
          /\ input' = Input("swipe", direction, "none")
  /\ onSwipeHorizontalCallback(direction)

onPanLeft(direction) ==
  /\ IF animatePan
     THEN /\ \E st \in {movePrevBody(Engine)} : Animate(st)
          /\ input' = Input("panLeft", direction, "movePrevBody")
     ELSE /\ UNCHANGED animated
          /\ input' = Input("panLeft", direction, "none")
  /\ onSwipeHorizontalCallback(direction)

onPanRight(direction) ==
  /\ IF animatePan
     THEN /\ \E st \in {moveNextBody(Engine)} : Animate(st)
          /\ input' = Input("panRight", direction, "moveNextBody")
     ELSE /\ UNCHANGED animated
          /\ input' = Input("panRight", direction, "none")
  /\ onSwipeHorizontalCallback(direction)

\* the body's pan responder reports a horizontal swipe
Swipe ==
  /\ Mounted /\ steps < MaxSteps
  /\ \E direction \in {"LEFT", "RIGHT"} :
       onSwipeHorizontal(direction) /\ Count(direction)
  /\ steps' = steps + 1
  /\ UNCHANGED <<props, rendered, dateRange, crashed, calls, lastCall>>

\* CalendarHeader, the header of the modes other than month:
\* onPress={() => panLeft('LEFT')}
PressPanLeft ==
  /\ Mounted /\ steps < MaxSteps /\ showHeaderPan /\ mode # "month"
  /\ onPanLeft("LEFT")
  /\ Count("LEFT")
  /\ steps' = steps + 1
  /\ UNCHANGED <<props, rendered, dateRange, crashed, calls, lastCall>>

\* CalendarHeader: onPress={() => panRight('RIGHT')}
PressPanRight ==
  /\ Mounted /\ steps < MaxSteps /\ showHeaderPan /\ mode # "month"
  /\ onPanRight("RIGHT")
  /\ Count("RIGHT")
  /\ steps' = steps + 1
  /\ UNCHANGED <<props, rendered, dateRange, crashed, calls, lastCall>>

\* the effect on [date] without its test of date
SetDate_Unguarded ==
  /\ Mounted /\ steps < MaxSteps
  /\ \E d \in DateChoices \cup {NoDate} :
       /\ d # NoDate \/ date # NoDate
       /\ date' = d
       /\ Commit(mode, weekStartsOn, weekEndsOn, FALSE)
       /\ targetDate' = d /\ pending' = TRUE
  /\ input' = PropInput("date")
  /\ nav' = [nav EXCEPT !.clean = FALSE]
  /\ steps' = steps + 1
  /\ UNCHANGED <<mode, locale, weekStartsOn, weekEndsOn, events, swipeEnabled,
                 animatePan, fadeInDuration, onChangeDate, showHeaderPan, isRTL,
                 animated>>

\* the parent passes another date: render, then the effect on [date]
SetDate ==
  /\ Mounted /\ steps < MaxSteps
  /\ \E d \in DateChoices \cup {NoDate} :
       /\ d # NoDate \/ date # NoDate
       /\ date' = d
       /\ Commit(mode, weekStartsOn, weekEndsOn, FALSE)
       /\ IF d # NoDate
          THEN targetDate' = d /\ pending' = TRUE
          ELSE targetDate' = targetDate /\ pending' = FALSE
  /\ input' = PropInput("date")
  /\ nav' = [nav EXCEPT !.clean = FALSE]
  /\ steps' = steps + 1
  /\ UNCHANGED <<mode, locale, weekStartsOn, weekEndsOn, events, swipeEnabled,
                 animatePan, fadeInDuration, onChangeDate, showHeaderPan, isRTL,
                 animated>>

SetMode ==
  /\ Mounted /\ steps < MaxSteps
  /\ \E m \in (Modes \cup {UnsupportedMode}) \ {mode} :
       /\ mode' = m
       /\ Commit(m, weekStartsOn, weekEndsOn, TRUE)
  /\ pending' = FALSE
  /\ input' = PropInput("mode")
  /\ nav' = [nav EXCEPT !.clean = FALSE]
  /\ steps' = steps + 1
  /\ UNCHANGED <<date, locale, weekStartsOn, weekEndsOn, events, swipeEnabled,
                 animatePan, fadeInDuration, onChangeDate, showHeaderPan, isRTL,
                 targetDate, animated>>

SetWeek ==
  /\ Mounted /\ steps < MaxSteps
  /\ \E w \in WeekChoices \ {<<weekStartsOn, weekEndsOn>>} :
       /\ weekStartsOn' = w[1]
       /\ weekEndsOn' = w[2]
       /\ Commit(mode, w[1], w[2], TRUE)
  /\ pending' = FALSE
  /\ input' = PropInput("week")
  /\ nav' = [nav EXCEPT !.clean = FALSE]
  /\ steps' = steps + 1
  /\ UNCHANGED <<date, mode, locale, events, swipeEnabled, animatePan,
                 fadeInDuration, onChangeDate, showHeaderPan, isRTL, targetDate,
                 animated>>

SetLocale ==
  /\ Mounted /\ steps < MaxSteps
  /\ \E l \in Locales \ {locale} : locale' = l
  /\ Commit(mode, weekStartsOn, weekEndsOn, TRUE)
  /\ pending' = FALSE
  /\ input' = PropInput("locale")
  /\ nav' = [nav EXCEPT !.clean = FALSE]
  /\ steps' = steps + 1
  /\ UNCHANGED <<date, mode, weekStartsOn, weekEndsOn, events, swipeEnabled,
                 animatePan, fadeInDuration, onChangeDate, showHeaderPan, isRTL,
                 targetDate, animated>>

SetEvents ==
  /\ Mounted /\ steps < MaxSteps
  /\ \E es \in EventChoices \ {events} : events' = es
  /\ Commit(mode, weekStartsOn, weekEndsOn, FALSE)
  /\ pending' = FALSE
  /\ input' = PropInput("events")
  /\ nav' = [nav EXCEPT !.clean = FALSE]
  /\ steps' = steps + 1
  /\ UNCHANGED <<date, mode, locale, weekStartsOn, weekEndsOn, swipeEnabled,
                 animatePan, fadeInDuration, onChangeDate, showHeaderPan, isRTL,
                 targetDate, animated>>

\* one animation frame
Frame ==
  /\ animations # <<>>
  /\ \E st \in {RunFrame(Engine, [i \in DOMAIN animations |-> animations[i].id])} :
       Animate(st)
  /\ UNCHANGED <<props, react, input, nav, steps>>

Next ==
  \/ Render
  \/ Swipe
  \/ PressPanLeft
  \/ PressPanRight
  \/ SetDate

Spec == Init /\ [][Next]_vars

\* the props change: mode (also to a value outside Mode), week settings,
\* locale, events, date, with and without an onChangeDate handler
PropInit ==
  /\ date \in DateChoices \cup {NoDate}
  /\ mode \in Modes \cup {UnsupportedMode}
  /\ locale = "en"
  /\ \E w \in WeekChoices : weekStartsOn = w[1] /\ weekEndsOn = w[2]
  /\ events \in EventChoices
  /\ swipeEnabled = TRUE
  /\ animatePan = FALSE
  /\ fadeInDuration = 0
  /\ onChangeDate \in BOOLEAN
  /\ showHeaderPan = FALSE
  /\ isRTL = FALSE
  /\ Mount

PropNext ==
  \/ Render
  \/ Swipe
  \/ SetDate
  \/ SetMode
  \/ SetWeek
  \/ SetLocale
  \/ SetEvents

PropSpec == PropInit /\ [][PropNext]_vars

\* animatePan is on: the pan animations, frame by frame
AnimInit ==
  /\ date = NoDate
  /\ mode \in {"week", "month"}
  /\ locale = "en"
  /\ weekStartsOn = 0
  /\ weekEndsOn = 6
  /\ events = <<>>
  /\ swipeEnabled \in BOOLEAN
  /\ animatePan = TRUE
  /\ fadeInDuration \in {0, FadeFrames}
  /\ onChangeDate = TRUE
  /\ showHeaderPan = TRUE
  /\ isRTL \in BOOLEAN
  /\ Mount

AnimNext ==
  \/ Render
  \/ Swipe
  \/ PressPanLeft
  \/ PressPanRight
  \/ Frame

AnimSpec == AnimInit /\ [][AnimNext]_vars

\* the same in week mode, left to right, where frames keep coming and React
\* runs the renders it scheduled
LiveInit == AnimInit /\ mode = "week" /\ swipeEnabled /\ ~isRTL

AnimLive == LiveInit /\ [][AnimNext]_vars /\ WF_vars(Frame) /\ WF_vars(Render)

\* ------------------------------------------------------------------ claims

NavigationInputs == {"swipe", "panLeft", "panRight"}

\* the step is the handling of a navigation input
NavigationStep == steps' = steps + 1 /\ input'.src \in NavigationInputs

\* k advances, k retreats from day d in mode m
RECURSIVE Advance(_, _, _)
Advance(m, d, k) == IF k = 0 THEN d ELSE Advance(m, d + modeToNum(m, d), k - 1)

RECURSIVE Retreat(_, _, _)
Retreat(m, d, k) == IF k = 0 THEN d ELSE Retreat(m, d - modeToNum(m, d), k - 1)

\* C1: with swipeEnabled, a swipe sets targetDate to the targetDate of its
\* render plus one period (LEFT in LTR, RIGHT in RTL) or minus one period
\* (RIGHT in LTR, LEFT in RTL) and asks for a render; what is rendered is the
\* range of the current mode computed from the targetDate of that render.
C1_SwipeMovesOnePeriod ==
  /\ [][(NavigationStep /\ input'.src = "swipe" /\ swipeEnabled) =>
          /\ ((~isRTL /\ input'.dir = "LEFT") \/ (isRTL /\ input'.dir = "RIGHT"))
               => targetDate' = rendered + modeToNum(mode, rendered)
          /\ ((~isRTL /\ input'.dir = "RIGHT") \/ (isRTL /\ input'.dir = "LEFT"))
               => targetDate' = rendered - modeToNum(mode, rendered)
          /\ pending']_vars
  /\ []((Mounted /\ ~pending) =>
          /\ rendered = targetDate
          /\ dateRange = DateRangeOf(mode, targetDate, weekStartsOn, weekEndsOn))

\* a RIGHT swipe in RTL layout, in month mode, has advanced and was rendered
C1_Witness ==
  /\ input.src = "swipe" /\ input.dir = "RIGHT" /\ isRTL /\ swipeEnabled
  /\ mode = "month" /\ ~pending
  /\ targetDate = input.from + modeToNum(mode, input.from)
  /\ dateRange = getDatesInMonth(targetDate)

\* C2: with animatePan and swipeEnabled, the animation an input starts agrees
\* with the move of targetDate: moveNextBody exactly when it advances by one
\* period, movePrevBody exactly when it retreats by one period.
C2_AnimationAgreesWithMove ==
  (animatePan /\ swipeEnabled /\ input.src \in NavigationInputs) =>
    /\ input.anim = "moveNextBody"
         <=> targetDate = input.from + modeToNum(mode, input.from)
    /\ input.anim = "movePrevBody"
         <=> targetDate = input.from - modeToNum(mode, input.from)

\* C3: with swipeEnabled false, a swipe or a pan button leaves targetDate as it
\* is, asks for no render, and so changes no dateRange and calls no onChangeDate.
C3_DisabledInputChangesNothing ==
  [][(NavigationStep /\ ~swipeEnabled) =>
       UNCHANGED <<targetDate, pending, rendered, dateRange, calls, lastCall>>]_vars

\* a pan button was pressed with swipeEnabled false, after an earlier input
C3_Witness ==
  /\ ~swipeEnabled /\ input.src = "panLeft" /\ steps >= 2
  /\ nav.advances + nav.retreats >= 2 /\ targetDate = nav.origin

\* the events of a list that are all-day events
AllDayIn(list) == {i \in DOMAIN list : isAllDayEvent(list[i].start, list[i].end)}

\* list holds the event e once
Once(list, e) == Cardinality({i \in DOMAIN list : list[i] = e}) = 1

\* allDayEvents and daytimeEvents split events: each event is in one of them,
\* once, the all-day ones in the first
Partition ==
  /\ AllDayIn(allDayEvents) = DOMAIN allDayEvents
  /\ AllDayIn(daytimeEvents) = {}
  /\ Len(allDayEvents) + Len(daytimeEvents) = Len(events)
  /\ \A i \in DOMAIN events : Once(allDayEvents \o daytimeEvents, events[i])

\* C4 as stated: in every mode the header gets only all-day events and the
\* body only timed events.
C4_BodyNeverGetsAllDay ==
  Mounted =>
    /\ Partition
    /\ AllDayIn(headerEvents) = DOMAIN headerEvents
    /\ AllDayIn(bodyEvents) = {}

\* C4 (amended): the events are split into all-day and timed events; in the
\* modes other than month the header gets the all-day events and the body the
\* timed events only; in month mode the header gets no events and the body
\* gets all of them, the timed ones first.
C4_SplitOutsideMonth ==
  Mounted =>
    /\ Partition
    /\ mode # "month" =>
         /\ headerEvents = allDayEvents
         /\ AllDayIn(bodyEvents) = {}
         /\ Len(bodyEvents) = Len(events) - Len(allDayEvents)
    /\ mode = "month" =>
         /\ headerEvents = <<>>
         /\ \A i \in DOMAIN events : Once(bodyEvents, events[i])
         /\ AllDayIn(bodyEvents) = {i \in DOMAIN bodyEvents : i > Len(daytimeEvents)}

\* the month view with all-day and timed events, after a change of props
C4_Witness ==
  /\ Mounted /\ mode = "month" /\ steps > 0
  /\ allDayEvents # <<>> /\ daytimeEvents # <<>>
  /\ Len(bodyEvents) = Len(events)

\* C5: a supplied onChangeDate is called once on mount, and always with the
\* ends of the dateRange that is rendered.
C5_OnceOnMountWithCurrentRange ==
  (Mounted /\ onChangeDate) =>
    /\ steps = 0 => calls = 1
    /\ lastCall = Ends(dateRange)

\* C6: in each supported mode the range is computed with the helper of the
\* mode and rendered; with any other mode the render throws an error naming
\* the mode, nothing is rendered and that render calls no onChangeDate.
C6_UnsupportedModeThrows ==
  /\ [](/\ mode = "month" => Mounted /\ dateRange = getDatesInMonth(rendered)
        /\ mode = "week" => Mounted /\ dateRange = getDatesInWeek(rendered, weekStartsOn)
        /\ mode = "3days" => Mounted /\ dateRange = getDatesInNextThreeDays(rendered)
        /\ mode = "day" => Mounted /\ dateRange = getDatesInNextOneDay(rendered)
        /\ mode = "custom" =>
             /\ Mounted
             /\ dateRange = getDatesInNextCustomDays(rendered, weekStartsOn, weekEndsOn)
        /\ mode \notin Modes => crashed = mode /\ dateRange = <<>>
        /\ (mode \notin Modes /\ steps = 0) => calls = 0)
  /\ [][crashed' # "" => calls' = calls]_vars

\* the mode changed to an unsupported one after onChangeDate had been called
C6_Witness ==
  /\ crashed = UnsupportedMode /\ mode = UnsupportedMode /\ input.src = "mode"
  /\ dateRange = <<>> /\ calls >= 1

\* C7: with animatePan, once the inputs have ended the body comes to rest at
\* presentLeftValue 0 and opacity 1, and stays there.
C7_ComesToRest ==
  <>[](animations = <<>> /\ presentLeftValue = 0 /\ presentFadeAnim = Resolution)

\* a pan arrived while an earlier one was running, and the body is at rest
\* after all inputs
C7_Witness ==
  /\ animatePan /\ fadeInDuration > 0 /\ steps >= 2 /\ input.busy
  /\ animations = <<>> /\ presentLeftValue = 0 /\ presentFadeAnim = Resolution

\* C8: the jumps of presentLeftValue start only while presentFadeAnim is 0 and
\* after the animation before them has finished, and the slide back starts
\* only after the jump to the edge has finished; also when pans overlap.
C8_HideRepositionShow ==
  \A i \in DOMAIN started :
    /\ started[i].start \in {"toStart", "toEdge"} => started[i].fade = 0
    /\ started[i].finished

\* C9: targetDate starts as the date prop, or as today; a change of the date
\* prop to a defined value sets it to that value; any other step leaves it or
\* is a swipe or pan step by one period.
C9_DatePropResetsTargetDate ==
  /\ [](steps = 0 =>
          IF date = NoDate THEN targetDate \in NowChoices ELSE targetDate = date)
  /\ [][IF steps' = steps + 1 /\ input'.src = "date" /\ date' # NoDate
        THEN targetDate' = date'
        ELSE \/ targetDate' = targetDate
             \/ /\ NavigationStep /\ date' = date
                /\ targetDate' \in {rendered + modeToNum(mode, rendered),
                                    rendered - modeToNum(mode, rendered)}]_vars

\* the date prop was set after a navigation that had been rendered
C9_Witness ==
  /\ input.src = "date" /\ date # NoDate /\ targetDate = date
  /\ rendered # date /\ nav.advances + nav.retreats >= 1

\* C10: with swipeEnabled and no change of props, k inputs in one direction
\* have moved targetDate by k periods, whenever they were handled.
C10_KInputsMoveKPeriods ==
  (Mounted /\ swipeEnabled /\ nav.clean) =>
    /\ nav.retreats = 0 => targetDate = Advance(mode, nav.origin, nav.advances)
    /\ nav.advances = 0 => targetDate = Retreat(mode, nav.origin, nav.retreats)

\* C11: with swipeEnabled false no swipe and no pan button starts an animation,
\* also with animatePan: moveNextBody and movePrevBody are never run, and
\* presentLeftValue and presentFadeAnim stay at rest, at 0 and 1.
C11_DisabledInputStartsNoAnimation ==
  ~swipeEnabled =>
    /\ input.anim = "none"
    /\ started = <<>> /\ animations = <<>>
    /\ presentLeftValue = 0 /\ presentFadeAnim = Resolution

\* C12: in every mode, when each move is handled after the render of the move
\* before it, one advance and one retreat, in either order, leave targetDate
\* where it started, and the render after them shows the dateRange of the start.
C12_AdvanceRetreatRestores ==
  (Mounted /\ swipeEnabled /\ nav.clean /\ nav.fresh
     /\ nav.advances = 1 /\ nav.retreats = 1) =>
    /\ targetDate = nav.origin
    /\ ~pending => dateRange = DateRangeOf(mode, nav.origin, weekStartsOn, weekEndsOn)

====
